---- MODULE Spec2Model ----
(***************************************************************************)
(* Live-process memory token scanner:                                      *)
(*   src-tauri/src/language_server/windows.rs  (scan_process_for_token)    *)
(* One call opens two handles to the target process, walks its regions     *)
(* with VirtualQueryEx, reads every scannable region in overlapping        *)
(* chunks and hands each successfully read chunk to the pattern matcher.   *)
(*                                                                         *)
(* Logout clean-up:  src-tauri/src/antigravity/cleanup.rs                  *)
(* Daily log file:   src-tauri/src/utils/tracing_config.rs                 *)
(* The three parts share no state; each has its own specification.         *)
(***************************************************************************)
EXTENDS Integers, Sequences, FiniteSets, TLC

VARIABLES
    \* language_server::utils constants and the arguments of the call
    USIZE_MAX,         \* usize::MAX of the build
    CHUNK_SIZE,
    SCAN_AHEAD,
    MAX_REGION_BYTES,
    patterns,          \* <<leading anchor, trailing anchor>>, byte sequences
    \* the target process, as the operating system shows it
    regions,           \* what VirtualQueryEx reports, in address order
    tokens,            \* anchored tokens lying in the target's memory
    unreadable,        \* addresses whose pages cannot be read
    \* the scanner's own handle table: pairs <<handle value, owning call>>
    handles,
    \* locals of each running call of scan_process_for_token
    pc, handle, rpm_handle, address, info, capped, offset, result,
    \* history of each call
    opens,             \* opens of the target process performed so far
    closes,            \* CloseHandle calls made so far
    stray,             \* some close hit a handle the call did not hold open
    queries,           \* addresses handed to VirtualQueryEx
    visited,           \* regions the walk has examined
    buffers,           \* <<offset, length>> of the buffers searched in this region
    failed,            \* offsets of the failed reads in this region
    last_read,         \* the latest read issued, with the region it was issued for
    searched,          \* <<address, length>> of every buffer handed to the matcher
    \* antigravity/cleanup.rs: the installation and its two state databases
    install,           \* what platform::get_antigravity_db_path and its fallback find
    db,                \* "main", "backup" |-> [exists, rows]; rows: key |-> value
    db0,               \* the databases as they were when the clean-up started
    \* locals of the running clear_all_antigravity_data / clear_database
    cpc, cur, key_index, count, msg, outcome,
    \* history of the clean-up
    opened,            \* databases opened so far, in order
    cleared,           \* databases clear_database returned Ok for, in order
    deleted,           \* <<database, entry of DELETE_KEYS>> whose DELETE removed a row
    marker_call,       \* the latest call of remove_keys_from_marker
    \* utils/tracing_config.rs: one DailyLogFileAppender and its callers
    clock,             \* the date chrono::Utc::now() gives
    current_date,      \* the date recorded
    writer,            \* the date of the file the BufWriter writes to
    date_lock, writer_lock,
    \* each thread in write or flush: its place, its local today, the outcome
    \* of its check_and_rotate and the file its write went to
    tpc, today, rotated, wrote_to

env  == <<USIZE_MAX, CHUNK_SIZE, SCAN_AHEAD, MAX_REGION_BYTES, patterns,
          regions, tokens, unreadable>>
vars == <<USIZE_MAX, CHUNK_SIZE, SCAN_AHEAD, MAX_REGION_BYTES, patterns,
          regions, tokens, unreadable, handles,
          pc, handle, rpm_handle, address, info, capped, offset, result,
          opens, closes, stray, queries, visited, buffers, failed, last_read,
          searched,
          install, db, db0, cpc, cur, key_index, count, msg, outcome,
          opened, cleared, deleted, marker_call,
          clock, current_date, writer, date_lock, writer_lock,
          tpc, today, rotated, wrote_to>>

scanner  == <<USIZE_MAX, CHUNK_SIZE, SCAN_AHEAD, MAX_REGION_BYTES, patterns,
              regions, tokens, unreadable, handles,
              pc, handle, rpm_handle, address, info, capped, offset, result,
              opens, closes, stray, queries, visited, buffers, failed, last_read,
              searched>>
cleanup  == <<install, db, db0, cpc, cur, key_index, count, msg, outcome,
              opened, cleared, deleted, marker_call>>
appender == <<clock, current_date, writer, date_lock, writer_lock,
              tpc, today, rotated, wrote_to>>

Calls == DOMAIN pc

Min(a, b) == IF a < b THEN a ELSE b
Max(a, b) == IF a > b THEN a ELSE b

\* usize::saturating_add / saturating_sub
saturating_add(a, b) == Min(a + b, USIZE_MAX)
saturating_sub(a, b) == Max(a - b, 0)

(***************************************************************************)
(* Page protections and region states (windows::Win32::System::Memory).    *)
(***************************************************************************)
ScannableProtections ==
    {"PAGE_READWRITE", "PAGE_WRITECOPY", "PAGE_EXECUTE_READWRITE", "PAGE_EXECUTE_WRITECOPY"}
OtherProtections ==
    {"PAGE_NOACCESS", "PAGE_GUARD", "PAGE_READONLY", "PAGE_READWRITE|PAGE_GUARD"}

\* is_readable accepting everything but the two excluded flags
is_readable_lax(protect) ==
    ~(protect = "PAGE_NOACCESS" \/ protect = "PAGE_GUARD")

is_readable(protect) ==
    IF protect = "PAGE_NOACCESS" \/ protect = "PAGE_GUARD"
    THEN FALSE
    ELSE protect \in ScannableProtections

zeroed == [BaseAddress |-> 0, RegionSize |-> 0, State |-> "0", Protect |-> "0"]

\* the condition of the if at the top of the region loop's body
Scannable(r) ==
    r.State = "MEM_COMMIT" /\ is_readable(r.Protect) /\ r.RegionSize > 0

(***************************************************************************)
(* The target's memory.  A token lies at tok.addr as                       *)
(*   leading anchor, body, trailing anchor;  every other byte is noise.    *)
(***************************************************************************)
Noise == "."
HexBytes == {"a", "b"}

Anchored(tok) == patterns[1] \o tok.body \o patterns[2]
AnchoredLen(tok) == Len(patterns[1]) + Len(tok.body) + Len(patterns[2])

\* the k-th byte (from 0) of the anchored token
AnchoredByte(tok, k) ==
    IF k < Len(patterns[1]) THEN patterns[1][k + 1]
    ELSE IF k < Len(patterns[1]) + Len(tok.body) THEN tok.body[k - Len(patterns[1]) + 1]
    ELSE patterns[2][k - Len(patterns[1]) - Len(tok.body) + 1]

Covers(t, a) == t.addr <= a /\ a < t.addr + AnchoredLen(t)

ByteAt(a) ==
    IF \A t \in tokens : ~Covers(t, a) THEN Noise
    ELSE LET t == CHOOSE t \in tokens : Covers(t, a) IN AnchoredByte(t, a - t.addr)

Bytes(addr, n) == [i \in 1..n |-> ByteAt(addr + i - 1)]

\* ReadProcessMemory succeeds only when the whole range is accessible
Readable(addr, n) == \A a \in addr..(addr + n - 1) : a \notin unreadable

(***************************************************************************)
(* Pattern matcher (language_server::utils::search_bytes_for_token): the   *)
(* first place of the buffer where the leading anchor is followed by a     *)
(* token body of the identifier shape and then by the trailing anchor.     *)
(***************************************************************************)
NoToken == [some |-> FALSE, token |-> <<>>]
Some(t) == [some |-> TRUE, token |-> t]

StartsAt(buf, n, i, pat) ==
    /\ i + Len(pat) - 1 <= n
    /\ \A j \in 1..Len(pat) : buf[i + j - 1] = pat[j]

RECURSIVE HexRun(_, _, _)
HexRun(buf, n, i) ==
    IF i <= n /\ buf[i] \in HexBytes THEN 1 + HexRun(buf, n, i + 1) ELSE 0

MatchAt(buf, n, i, pats) ==
    /\ StartsAt(buf, n, i, pats[1])
    /\ LET s == i + Len(pats[1])
           k == HexRun(buf, n, s)
       IN  k >= 1 /\ StartsAt(buf, n, s + k, pats[2])

MinOf(S) == CHOOSE x \in S : \A y \in S : x <= y

search_bytes_for_token(buf, pats) ==
    LET n == Len(buf)
        first == {i \in 1..n : Len(pats[1]) = 0 \/ buf[i] = pats[1][1]}
        hits == {i \in first : MatchAt(buf, n, i, pats)}
    IN  IF hits = {} THEN NoToken
        ELSE LET s == MinOf(hits) + Len(pats[1])
             IN  Some(SubSeq(buf, s, s + HexRun(buf, n, s) - 1))

(***************************************************************************)
(* VirtualQueryEx: the region that starts at the address, else the rest of *)
(* the region the address lies in, else failure (nothing is mapped there). *)
(***************************************************************************)
RegionEnd(r) == r.BaseAddress + r.RegionSize

VirtualQueryEx(addr) ==
    LET exact  == {i \in DOMAIN regions : regions[i].BaseAddress = addr}
        inside == {i \in DOMAIN regions :
                      regions[i].BaseAddress < addr /\ addr < RegionEnd(regions[i])}
    IN  IF exact # {} THEN [ok |-> TRUE, info |-> regions[MinOf(exact)]]
        ELSE IF inside # {}
        THEN LET r == regions[MinOf(inside)]
             IN  [ok |-> TRUE,
                  info |-> [r EXCEPT !.BaseAddress = addr,
                                     !.RegionSize = RegionEnd(r) - addr]]
        ELSE [ok |-> FALSE, info |-> zeroed]

(***************************************************************************)
(* Handles.  OpenProcess hands out the lowest free handle value;           *)
(* CloseHandle closes whatever handle has the value it is given.           *)
(***************************************************************************)
FreshHandle == MinOf((1..(Cardinality(handles) + 1)) \ {p[1] : p \in handles})
Holds(c, h) == <<h, c>> \in handles

\* a close that takes every open handle of the scanner with it
CloseHandleAll(hs, h) == {}

CloseHandle(hs, h) == {p \in hs : p[1] # h}

Pending     == [kind |-> "Pending", some |-> FALSE, token |-> <<>>]
Err         == [kind |-> "Err", some |-> FALSE, token |-> <<>>]
OkNone      == [kind |-> "Ok", some |-> FALSE, token |-> <<>>]
OkSome(t)   == [kind |-> "Ok", some |-> TRUE, token |-> t]

\* let overlap = patterns.0.len().max(patterns.1.len()) + SCAN_AHEAD
Overlap == Max(Len(patterns[1]), Len(patterns[2])) + SCAN_AHEAD

\* the region read to its reported end
CappedNot(region_size) == region_size

\* let capped = min(region_size, MAX_REGION_BYTES)
Capped(region_size) == Min(region_size, MAX_REGION_BYTES)

\* the next chunk starting where the last one ended
StepOkNoOverlap(read) == Max(1, read)

\* a failed read giving up the rest of the region
StepErrAbort(chunk_size) == USIZE_MAX

\* a failed read skipping its whole chunk
StepErrWhole(chunk_size) == Max(1, chunk_size)

\* the step after a failed read and after a searched buffer
StepErr(chunk_size) == Max(1, saturating_sub(chunk_size, Overlap))
StepOk(read) == Max(1, saturating_sub(read, Overlap))

(***************************************************************************)
(* scan_process_for_token, one action per step of the call c.              *)
(***************************************************************************)
scan == <<pc, handle, rpm_handle, address, info, capped, offset, result>>
hist == <<opens, closes, stray, queries, visited, buffers, failed, last_read, searched>>

\* let handle = OpenProcess(PROCESS_QUERY_INFORMATION | PROCESS_VM_READ, false, pid)?;
\* if handle.is_invalid() { return Err(..) }
OpenProcess(c) ==
    /\ pc[c] = "OpenProcess"
    /\ \E ok \in BOOLEAN :
          IF ok
          THEN /\ handle' = [handle EXCEPT ![c] = FreshHandle]
               /\ handles' = handles \cup {<<FreshHandle, c>>}
               /\ opens' = [opens EXCEPT ![c] = @ + 1]
               /\ pc' = [pc EXCEPT ![c] = "OpenRead"]
               /\ UNCHANGED result
          ELSE /\ result' = [result EXCEPT ![c] = Err]
               /\ pc' = [pc EXCEPT ![c] = "Return"]
               /\ UNCHANGED <<handle, handles, opens>>
    /\ UNCHANGED <<env, rpm_handle, address, info, capped, offset>>
    /\ UNCHANGED <<cleanup, appender>>
    /\ UNCHANGED <<closes, stray, queries, visited, buffers, failed, last_read, searched>>

\* let rpm_handle: ProcessHandle = (pid as Pid).try_into().map_err(..)?;
\* let mut address = 0usize; let mut info = zeroed();
OpenRead(c) ==
    /\ pc[c] = "OpenRead"
    /\ \E ok \in BOOLEAN :
          IF ok
          THEN /\ rpm_handle' = [rpm_handle EXCEPT ![c] = FreshHandle]
               /\ handles' = handles \cup {<<FreshHandle, c>>}
               /\ opens' = [opens EXCEPT ![c] = @ + 1]
               /\ address' = [address EXCEPT ![c] = 0]
               /\ info' = [info EXCEPT ![c] = zeroed]
               /\ pc' = [pc EXCEPT ![c] = "Query"]
               /\ UNCHANGED result
          ELSE /\ result' = [result EXCEPT ![c] = Err]
               /\ pc' = [pc EXCEPT ![c] = "Return"]
               /\ UNCHANGED <<rpm_handle, handles, opens, address, info>>
    /\ UNCHANGED <<env, handle, capped, offset>>
    /\ UNCHANGED <<cleanup, appender>>
    /\ UNCHANGED <<closes, stray, queries, visited, buffers, failed, last_read, searched>>

\* while VirtualQueryEx(handle, address, &mut info, ..) == size_of::<MEMORY_BASIC_INFORMATION>()
Query(c) ==
    /\ pc[c] = "Query"
    /\ LET q == VirtualQueryEx(address[c])
       IN  IF q.ok
           THEN /\ info' = [info EXCEPT ![c] = q.info]
                /\ pc' = [pc EXCEPT ![c] = "Region"]
           ELSE /\ pc' = [pc EXCEPT ![c] = "Close"]
                /\ UNCHANGED info
    /\ queries' = [queries EXCEPT ![c] = @ \cup {address[c]}]
    /\ UNCHANGED <<env, handles, handle, rpm_handle, address, capped, offset, result>>
    /\ UNCHANGED <<cleanup, appender>>
    /\ UNCHANGED <<opens, closes, stray, visited, buffers, failed, last_read, searched>>

\* if info.State == MEM_COMMIT && is_readable(info.Protect) && region_size > 0 {
\*     let capped = ..; let mut offset = 0usize;
Region(c) ==
    /\ pc[c] = "Region"
    /\ visited' = [visited EXCEPT ![c] = @ \cup {info[c]}]
    /\ IF Scannable(info[c])
       THEN /\ capped' = [capped EXCEPT ![c] = Capped(info[c].RegionSize)]
            /\ offset' = [offset EXCEPT ![c] = 0]
            /\ buffers' = [buffers EXCEPT ![c] = {}]
            /\ failed' = [failed EXCEPT ![c] = {}]
            /\ pc' = [pc EXCEPT ![c] = "Chunk"]
       ELSE /\ pc' = [pc EXCEPT ![c] = "Advance"]
            /\ UNCHANGED <<capped, offset, buffers, failed>>
    /\ UNCHANGED <<env, handles, handle, rpm_handle, address, info, result>>
    /\ UNCHANGED <<cleanup, appender>>
    /\ UNCHANGED <<opens, closes, stray, queries, last_read, searched>>

\* a read failure propagated with ? instead of being skipped
ReadFailedErr(c, chunk_size) ==
    /\ result' = [result EXCEPT ![c] = Err]
    /\ pc' = [pc EXCEPT ![c] = "Return"]
    /\ failed' = [failed EXCEPT ![c] = @ \cup {offset[c]}]
    /\ UNCHANGED <<handles, offset, closes, stray, buffers, searched>>

\* the buffer of a failed read handed to the matcher before stepping on
ReadFailedSearched(c, chunk_size) ==
    /\ offset' = [offset EXCEPT ![c] = saturating_add(@, StepErr(chunk_size))]
    /\ failed' = [failed EXCEPT ![c] = @ \cup {offset[c]}]
    /\ searched' = [searched EXCEPT ![c] =
           @ \cup {<<info[c].BaseAddress + offset[c], chunk_size>>}]
    /\ UNCHANGED <<handles, pc, result, closes, stray, buffers>>

\* Err(e) => { let step = ..; offset = offset.saturating_add(step); continue; }
ReadFailed(c, chunk_size) ==
    /\ offset' = [offset EXCEPT ![c] = saturating_add(@, StepErr(chunk_size))]
    /\ failed' = [failed EXCEPT ![c] = @ \cup {offset[c]}]
    /\ UNCHANGED <<handles, pc, result, closes, stray, buffers, searched>>

\* the token noted without leaving the loop
FoundContinue(c, token) ==
    /\ result' = [result EXCEPT ![c] = OkSome(token)]
    /\ offset' = [offset EXCEPT ![c] = saturating_add(@, 1)]
    /\ UNCHANGED <<handles, pc, closes, stray, failed>>

\* if let Some(token) = .. { CloseHandle(handle); return Ok(Some(token)); }
\* (returning drops rpm_handle, which closes the read handle)
Found(c, token) ==
    /\ handles' = CloseHandle(CloseHandle(handles, handle[c]), rpm_handle[c])
    /\ closes' = [closes EXCEPT ![c] = @ + 1]
    /\ stray' = [stray EXCEPT ![c] = @ \/ ~Holds(c, handle[c])]
    /\ result' = [result EXCEPT ![c] = OkSome(token)]
    /\ pc' = [pc EXCEPT ![c] = "Return"]
    /\ UNCHANGED <<offset, failed>>

\* let step = max(1, read.saturating_sub(overlap)); offset = offset.saturating_add(step);
NoMatch(c, read) ==
    /\ offset' = [offset EXCEPT ![c] = saturating_add(@, StepOk(read))]
    /\ UNCHANGED <<handles, pc, result, closes, stray, failed>>

\* while offset < capped { .. copy_address(base + offset, &mut buffer) .. }
Chunk(c) ==
    /\ pc[c] = "Chunk"
    /\ IF offset[c] < capped[c]
       THEN LET chunk_size == Min(CHUNK_SIZE, capped[c] - offset[c])
                addr == info[c].BaseAddress + offset[c]
            IN  /\ last_read' = [last_read EXCEPT ![c] =
                       [issued |-> TRUE, region |-> info[c],
                        addr |-> addr, len |-> chunk_size]]
                /\ IF ~Readable(addr, chunk_size)
                   THEN ReadFailed(c, chunk_size)
                   ELSE LET found == search_bytes_for_token(Bytes(addr, chunk_size), patterns)
                        IN  /\ buffers' = [buffers EXCEPT ![c] = @ \cup {<<offset[c], chunk_size>>}]
                            /\ searched' = [searched EXCEPT ![c] = @ \cup {<<addr, chunk_size>>}]
                            /\ IF found.some
                               THEN Found(c, found.token)
                               ELSE NoMatch(c, chunk_size)
       ELSE /\ pc' = [pc EXCEPT ![c] = "Advance"]
            /\ UNCHANGED <<handles, offset, result, closes, stray, buffers, failed, last_read, searched>>
    /\ UNCHANGED <<env, handle, rpm_handle, address, info, capped, opens, queries, visited>>
    /\ UNCHANGED <<cleanup, appender>>

\* address = base.saturating_add(region_size); if address == 0 { break; }
NextAddress(base, region_size) == saturating_add(base, region_size)

\* the walk given up after the first region
AdvanceStop(c) ==
    /\ pc[c] = "Advance"
    /\ address' = [address EXCEPT ![c] = NextAddress(info[c].BaseAddress, info[c].RegionSize)]
    /\ pc' = [pc EXCEPT ![c] = "Close"]
    /\ UNCHANGED <<env, handles, handle, rpm_handle, info, capped, offset, result>>
    /\ UNCHANGED <<cleanup, appender>>
    /\ UNCHANGED hist

Advance(c) ==
    /\ pc[c] = "Advance"
    /\ LET next == NextAddress(info[c].BaseAddress, info[c].RegionSize)
       IN  /\ address' = [address EXCEPT ![c] = next]
           /\ pc' = [pc EXCEPT ![c] = IF next = 0 THEN "Close" ELSE "Query"]
    /\ UNCHANGED <<env, handles, handle, rpm_handle, info, capped, offset, result>>
    /\ UNCHANGED <<cleanup, appender>>
    /\ UNCHANGED hist

\* CloseHandle(handle); Ok(None)    (returning drops rpm_handle)
Close(c) ==
    /\ pc[c] = "Close"
    /\ handles' = CloseHandle(CloseHandle(handles, handle[c]), rpm_handle[c])
    /\ closes' = [closes EXCEPT ![c] = @ + 1]
    /\ stray' = [stray EXCEPT ![c] = @ \/ ~Holds(c, handle[c])]
    /\ result' = [result EXCEPT ![c] = OkNone]
    /\ pc' = [pc EXCEPT ![c] = "Return"]
    /\ UNCHANGED <<env, handle, rpm_handle, address, info, capped, offset>>
    /\ UNCHANGED <<cleanup, appender>>
    /\ UNCHANGED <<opens, queries, visited, buffers, failed, last_read, searched>>

(***************************************************************************)
(* Logout clean-up:  src-tauri/src/antigravity/cleanup.rs                  *)
(* A state database is the ItemTable of a SQLite file: rows key |-> value. *)
(* The marker row holds a JSON object listing the stored keys.             *)
(***************************************************************************)
\* crate::constants::database
DELETE_KEYS == <<"authStatus", "oauthToken">>
TARGET_STORAGE_MARKER == "targetStorageMarker"
\* the device fingerprint entry, which the clean-up is to keep
FingerprintKey == "google.antigravity"
SettingsKey == "settings"

\* a stored text: a JSON object written out entry by entry, or something else
Object(entries) == [json |-> TRUE, entries |-> entries]
Raw(n) == [json |-> FALSE, entries |-> << <<"raw", n>> >>]

Range(f) == {f[i] : i \in DOMAIN f}

EmptyMap == [k \in {} |-> 0]

\* serde_json::from_str::<Map<String, Value>>: of a repeated key the last
\* entry counts; a text that is no object does not parse
from_str(text) ==
    IF text.json
    THEN [ok |-> TRUE,
          map |-> [k \in {e[1] : e \in Range(text.entries)} |->
                      LET last == CHOOSE i \in DOMAIN text.entries :
                                      /\ text.entries[i][1] = k
                                      /\ \A j \in DOMAIN text.entries :
                                            text.entries[j][1] = k => j <= i
                      IN  text.entries[last][2]]]
    ELSE [ok |-> FALSE, map |-> EmptyMap]

\* Result::unwrap_or_default on the parsed map
unwrap_or_default(parsed) == IF parsed.ok THEN parsed.map ELSE EmptyMap

\* the order of the keys in a serde_json::Map (a BTreeMap)
KeyOrder == <<"authStatus", "google.antigravity", "oauthToken", "settings">>

\* serde_json::to_string of a map: its entries in key order
to_string(map) ==
    LET keys == SelectSeq(KeyOrder, LAMBDA k : k \in DOMAIN map)
    IN  Object([i \in DOMAIN keys |-> <<keys[i], map[keys[i]]>>])

\* the listed keys kept in the marker with the value 0
ZeroKeys(map, keys) ==
    [k \in DOMAIN map |-> IF k \in Range(keys) THEN 0 ELSE map[k]]

\* for key in keys_to_remove { marker_obj.remove(*key) }
RemoveKeys(map, keys) ==
    [k \in DOMAIN map \ Range(keys) |-> map[k]]

\* INSERT OR REPLACE INTO ItemTable (key, value) VALUES (key, value)
InsertOrReplace(rows, key, value) ==
    [k \in DOMAIN rows \cup {key} |-> IF k = key THEN value ELSE rows[k]]

\* DELETE FROM ItemTable, with no WHERE
DeleteAllRows(rows, key) == EmptyMap

\* DELETE FROM ItemTable WHERE key = ?
DeleteRow(rows, key) == [k \in DOMAIN rows \ {key} |-> rows[k]]

\* remove_keys_from_marker(conn, keys_to_remove) on the rows of the open
\* database; read_ok, write_ok: whether the SELECT and the INSERT succeed
remove_keys_from_marker(rows, keys_to_remove, read_ok, write_ok) ==
    IF ~read_ok THEN [ok |-> FALSE, rows |-> rows, wrote |-> FALSE]
    ELSE IF TARGET_STORAGE_MARKER \notin DOMAIN rows
    THEN [ok |-> TRUE, rows |-> rows, wrote |-> FALSE]
    ELSE LET marker_obj == unwrap_or_default(from_str(rows[TARGET_STORAGE_MARKER]))
             changed == \E i \in DOMAIN keys_to_remove :
                            keys_to_remove[i] \in DOMAIN marker_obj
         IN  IF ~changed THEN [ok |-> TRUE, rows |-> rows, wrote |-> FALSE]
             ELSE IF ~write_ok THEN [ok |-> FALSE, rows |-> rows, wrote |-> FALSE]
             ELSE [ok |-> TRUE, wrote |-> TRUE,
                   rows |-> InsertOrReplace(rows, TARGET_STORAGE_MARKER,
                                to_string(RemoveKeys(marker_obj, keys_to_remove)))]

DbNames == {"main", "backup"}

SetRows(name, rows) == [db EXCEPT ![name].rows = rows]

\* clear_all_antigravity_data up to the first clear_database: the database
\* path, from get_antigravity_db_path or the first of the fallback paths,
\* and the check that the file exists
LocateDatabase ==
    /\ cpc = "Locate"
    /\ IF install = "none" \/ ~db["main"].exists
       THEN /\ outcome' = "Err"
            /\ cpc' = "Return"
            /\ UNCHANGED <<cur, msg>>
       ELSE /\ msg' = << >>
            /\ cur' = "main"
            /\ cpc' = "Open"
            /\ UNCHANGED outcome
    /\ UNCHANGED <<install, db, db0, key_index, count, opened, cleared, deleted, marker_call>>
    /\ UNCHANGED <<scanner, appender>>

\* a failed backup clean-up turned into the result of the logout
OpenDatabaseStrict ==
    /\ cpc = "Open"
    /\ opened' = Append(opened, cur)
    /\ \E ok \in BOOLEAN :
          IF ok
          THEN /\ count' = 0
               /\ key_index' = 1
               /\ cpc' = IF Len(DELETE_KEYS) = 0 THEN "Marker" ELSE "Delete"
               /\ UNCHANGED outcome
          ELSE /\ outcome' = "Err"
               /\ cpc' = "Return"
               /\ UNCHANGED <<count, key_index>>
    /\ UNCHANGED <<install, db, db0, cur, msg, cleared, deleted, marker_call>>
    /\ UNCHANGED <<scanner, appender>>

\* clear_database: let conn = Connection::open(db_path).map_err(..)?;
\* the caller returns the Err of the main database and drops that of the backup
OpenDatabase ==
    /\ cpc = "Open"
    /\ opened' = Append(opened, cur)
    /\ \E ok \in BOOLEAN :
          IF ok
          THEN /\ count' = 0
               /\ key_index' = 1
               /\ cpc' = IF Len(DELETE_KEYS) = 0 THEN "Marker" ELSE "Delete"
               /\ UNCHANGED outcome
          ELSE IF cur = "main"
          THEN /\ outcome' = "Err"
               /\ cpc' = "Return"
               /\ UNCHANGED <<count, key_index>>
          ELSE /\ cpc' = "Finish"
               /\ UNCHANGED <<outcome, count, key_index>>
    /\ UNCHANGED <<install, db, db0, cur, msg, cleared, deleted, marker_call>>
    /\ UNCHANGED <<scanner, appender>>

\* for key in DELETE_KEYS { let rows = conn.execute("DELETE ..", [key]).unwrap_or(0);
\*                          if rows > 0 { count += 1; } }
DeleteKey ==
    /\ cpc = "Delete"
    /\ \E ok \in BOOLEAN :
          LET key  == DELETE_KEYS[key_index]
              rows == IF ok /\ key \in DOMAIN db[cur].rows THEN 1 ELSE 0
          IN  /\ db' = IF ok THEN SetRows(cur, DeleteRow(db[cur].rows, key)) ELSE db
              /\ count' = IF rows > 0 THEN count + 1 ELSE count
              /\ deleted' = IF rows > 0 THEN deleted \cup {<<cur, key_index>>} ELSE deleted
    /\ key_index' = key_index + 1
    /\ cpc' = IF key_index + 1 > Len(DELETE_KEYS) THEN "Marker" ELSE "Delete"
    /\ UNCHANGED <<install, db0, cur, msg, outcome, opened, cleared, marker_call>>
    /\ UNCHANGED <<scanner, appender>>

\* if let Err(e) = remove_keys_from_marker(&conn, DELETE_KEYS) { warn }
UpdateMarker ==
    /\ cpc = "Marker"
    /\ \E read_ok, write_ok \in BOOLEAN :
          LET r == remove_keys_from_marker(db[cur].rows, DELETE_KEYS, read_ok, write_ok)
          IN  /\ db' = SetRows(cur, r.rows)
              /\ marker_call' = [called |-> TRUE, db |-> cur, ok |-> r.ok,
                                 wrote |-> r.wrote,
                                 before |-> db[cur].rows, after |-> r.rows]
    /\ cpc' = "Cleared"
    /\ UNCHANGED <<install, db0, cur, key_index, count, msg, outcome, opened, cleared, deleted>>
    /\ UNCHANGED <<scanner, appender>>

\* clear_database returns Ok(count); the caller adds the count to the message
\* and, after the main database, turns to the backup if that file exists
DatabaseCleared ==
    /\ cpc = "Cleared"
    /\ cleared' = Append(cleared, cur)
    /\ msg' = Append(msg, <<cur, count>>)
    /\ IF cur = "main" /\ db["backup"].exists
       THEN /\ cur' = "backup"
            /\ cpc' = "Open"
       ELSE /\ cpc' = "Finish"
            /\ UNCHANGED cur
    /\ UNCHANGED <<install, db, db0, key_index, count, outcome, opened, deleted, marker_call>>
    /\ UNCHANGED <<scanner, appender>>

\* msg.push_str(..); Ok(format!(.., msg))
Finish ==
    /\ cpc = "Finish"
    /\ outcome' = "Ok"
    /\ cpc' = "Return"
    /\ UNCHANGED <<install, db, db0, cur, key_index, count, msg, opened, cleared, deleted, marker_call>>
    /\ UNCHANGED <<scanner, appender>>

NoMarkerCall ==
    [called |-> FALSE, db |-> "main", ok |-> FALSE, wrote |-> FALSE,
     before |-> EmptyMap, after |-> EmptyMap]

NoDatabase == [exists |-> FALSE, rows |-> EmptyMap]

\* the locals of a clean-up about to start, or of none (at = "Idle")
StartCleanup(at) ==
    /\ db0 = db
    /\ cpc = at
    /\ cur = "main"
    /\ key_index = 1
    /\ count = 0
    /\ msg = << >>
    /\ outcome = "Pending"
    /\ opened = << >>
    /\ cleared = << >>
    /\ deleted = {}
    /\ marker_call = NoMarkerCall

NoCleanup ==
    /\ install = "none"
    /\ db = [n \in DbNames |-> NoDatabase]
    /\ StartCleanup("Idle")

(***************************************************************************)
(* Daily log file:  src-tauri/src/utils/tracing_config.rs                  *)
(* One DailyLogFileAppender shared by the threads that write and flush.    *)
(* Dates are numbered; the file of a date is named by the date.  A lock is *)
(* NoThread when free, else the thread that holds its guard.               *)
(***************************************************************************)
MaxDate == 3
Threads == {"t1", "t2"}
NoThread == "none"
NoFile == 0

\* the caller enters write or flush
Enter(t) ==
    /\ tpc[t] = "idle"
    /\ \E op \in {"ReadClock", "FlushLock"} : tpc' = [tpc EXCEPT ![t] = op]
    /\ rotated' = [rotated EXCEPT ![t] = "none"]
    /\ wrote_to' = [wrote_to EXCEPT ![t] = NoFile]
    /\ UNCHANGED <<clock, today, current_date, writer, date_lock, writer_lock>>
    /\ UNCHANGED <<scanner, cleanup>>

\* check_and_rotate: let today = chrono::Utc::now().format("%Y-%m-%d").to_string();
ReadClock(t) ==
    /\ tpc[t] = "ReadClock"
    /\ today' = [today EXCEPT ![t] = clock]
    /\ tpc' = [tpc EXCEPT ![t] = "LockDate"]
    /\ UNCHANGED <<clock, current_date, writer, date_lock, writer_lock, rotated, wrote_to>>
    /\ UNCHANGED <<scanner, cleanup>>

\* let mut current_date = self.current_date.lock().unwrap();
\* if *current_date != today { let file = OpenOptions::new()..open(&file_path)?;
\*                             *current_date = today.clone();
\* the guard is dropped when the function returns: at once when the date is
\* today's or the open fails, else after the writer is replaced
LockDate(t) ==
    /\ tpc[t] = "LockDate"
    /\ date_lock = NoThread
    /\ IF current_date = today[t]
       THEN /\ tpc' = [tpc EXCEPT ![t] = "LockWriter"]
            /\ UNCHANGED <<current_date, date_lock, rotated>>
       ELSE \E opened_ok \in BOOLEAN :
               IF opened_ok
               THEN /\ current_date' = today[t]
                    /\ date_lock' = t
                    /\ tpc' = [tpc EXCEPT ![t] = "RotateWriter"]
                    /\ UNCHANGED rotated
               ELSE /\ rotated' = [rotated EXCEPT ![t] = "failed"]
                    /\ tpc' = [tpc EXCEPT ![t] = "LockWriter"]
                    /\ UNCHANGED <<current_date, date_lock>>
    /\ UNCHANGED <<clock, today, writer, writer_lock, wrote_to>>
    /\ UNCHANGED <<scanner, cleanup>>

\* the date recorded, the previous day's file kept
RotateWriterKeep(t) ==
    /\ tpc[t] = "RotateWriter"
    /\ writer_lock = NoThread
    /\ date_lock' = NoThread
    /\ rotated' = [rotated EXCEPT ![t] = "ok"]
    /\ tpc' = [tpc EXCEPT ![t] = "LockWriter"]
    /\ UNCHANGED <<clock, today, current_date, writer, writer_lock, wrote_to>>
    /\ UNCHANGED <<scanner, cleanup>>

\* let mut writer = self.writer.lock().unwrap(); *writer = BufWriter::new(file); } Ok(())
RotateWriter(t) ==
    /\ tpc[t] = "RotateWriter"
    /\ writer_lock = NoThread
    /\ writer' = today[t]
    /\ date_lock' = NoThread
    /\ rotated' = [rotated EXCEPT ![t] = "ok"]
    /\ tpc' = [tpc EXCEPT ![t] = "LockWriter"]
    /\ UNCHANGED <<clock, today, current_date, writer_lock, wrote_to>>
    /\ UNCHANGED <<scanner, cleanup>>

\* write, flush: let mut writer = self.writer.lock().unwrap();
LockWriter(t) ==
    /\ tpc[t] \in {"LockWriter", "FlushLock"}
    /\ writer_lock = NoThread
    /\ writer_lock' = t
    /\ tpc' = [tpc EXCEPT ![t] = IF tpc[t] = "LockWriter" THEN "Write" ELSE "Flush"]
    /\ UNCHANGED <<clock, today, current_date, writer, date_lock, rotated, wrote_to>>
    /\ UNCHANGED <<scanner, cleanup>>

\* writer.write(sanitized_content.as_bytes()) / writer.flush(); the guard is dropped
WriteOrFlush(t) ==
    /\ tpc[t] \in {"Write", "Flush"}
    /\ wrote_to' = [wrote_to EXCEPT ![t] = IF tpc[t] = "Write" THEN writer ELSE NoFile]
    /\ writer_lock' = NoThread
    /\ tpc' = [tpc EXCEPT ![t] = "idle"]
    /\ UNCHANGED <<clock, today, current_date, writer, date_lock, rotated>>
    /\ UNCHANGED <<scanner, cleanup>>

\* midnight UTC passes
Tick ==
    /\ clock < MaxDate
    /\ clock' = clock + 1
    /\ UNCHANGED <<today, current_date, writer, date_lock, writer_lock, tpc, rotated, wrote_to>>
    /\ UNCHANGED <<scanner, cleanup>>

\* DailyLogFileAppender::new at the date now, and the threads that use it
NewAppender(now, ts) ==
    /\ clock = now
    /\ current_date = now
    /\ writer = now
    /\ date_lock = NoThread
    /\ writer_lock = NoThread
    /\ tpc = [t \in ts |-> "idle"]
    /\ today = [t \in ts |-> now]
    /\ rotated = [t \in ts |-> "none"]
    /\ wrote_to = [t \in ts |-> NoFile]

NoAppender == NewAppender(1, {})

(***************************************************************************)
(* Initial states: a configuration, a target process and one call about to *)
(* start.                                                                  *)
(***************************************************************************)
UsizeBits == 4
MaxRegions == 2
MaxTokenAddr == 3
MaxBadAddr == 3

Region3(st, pr, sz) == [State |-> st, Protect |-> pr, RegionSize |-> sz]

RegionShapes ==
    {Region3("MEM_COMMIT", "PAGE_READWRITE", sz) : sz \in {0, 3, 8}}
    \cup {Region3("MEM_COMMIT", "PAGE_WRITECOPY", 8),
          Region3("MEM_COMMIT", "PAGE_EXECUTE_READWRITE", 3),
          Region3("MEM_COMMIT", "PAGE_EXECUTE_WRITECOPY", 8),
          Region3("MEM_RESERVE", "PAGE_READWRITE", 8),
          Region3("MEM_FREE", "PAGE_NOACCESS", 3)}
    \cup {Region3("MEM_COMMIT", pr, 3) : pr \in OtherProtections}

RECURSIVE BaseOf(_, _)
BaseOf(shapes, i) ==
    IF i = 1 THEN 0 ELSE BaseOf(shapes, i - 1) + shapes[i - 1].RegionSize

\* regions laid out one after the other from address 0
Layout(shapes) ==
    [i \in DOMAIN shapes |->
        [BaseAddress |-> BaseOf(shapes, i), RegionSize |-> shapes[i].RegionSize,
         State |-> shapes[i].State, Protect |-> shapes[i].Protect]]

Layouts(max, top) ==
    {Layout(sh) : sh \in {q \in UNION {[1..n -> RegionShapes] : n \in 0..max} :
                              BaseOf(q, Len(q) + 1) <= top + 1}}

Token(p, body) == [addr |-> p, body |-> body]

TokenSets ==
    {{}} \cup {{Token(p, <<"a">>)} : p \in 0..MaxTokenAddr}
         \cup {{Token(0, <<"b">>), Token(3, <<"a">>)}}

Configs == {[chunk |-> 4, ahead |-> 1, max |-> 6]}

StartCalls(cs) ==
    /\ handles = {}
    /\ pc = [c \in cs |-> "OpenProcess"]
    /\ handle = [c \in cs |-> 0]
    /\ rpm_handle = [c \in cs |-> 0]
    /\ address = [c \in cs |-> 0]
    /\ info = [c \in cs |-> zeroed]
    /\ capped = [c \in cs |-> 0]
    /\ offset = [c \in cs |-> 0]
    /\ result = [c \in cs |-> Pending]
    /\ opens = [c \in cs |-> 0]
    /\ closes = [c \in cs |-> 0]
    /\ stray = [c \in cs |-> FALSE]
    /\ queries = [c \in cs |-> {}]
    /\ visited = [c \in cs |-> {}]
    /\ buffers = [c \in cs |-> {}]
    /\ failed = [c \in cs |-> {}]
    /\ searched = [c \in cs |-> {}]
    /\ last_read = [c \in cs |->
           [issued |-> FALSE, region |-> zeroed, addr |-> 0, len |-> 0]]

Init ==
    /\ USIZE_MAX = 2 ^ UsizeBits - 1
    /\ \E cfg \in Configs :
          /\ CHUNK_SIZE = cfg.chunk
          /\ SCAN_AHEAD = cfg.ahead
          /\ MAX_REGION_BYTES = cfg.max
    /\ patterns = << <<"L">>, <<"R">> >>
    /\ regions \in Layouts(MaxRegions, USIZE_MAX)
    /\ tokens \in TokenSets
    /\ unreadable \in {{}} \cup {{u} : u \in 0..MaxBadAddr}
    /\ StartCalls({1})
    /\ NoCleanup
    /\ NoAppender

Next ==
    \/ \E c \in Calls : OpenProcess(c)
    \/ \E c \in Calls : OpenRead(c)
    \/ \E c \in Calls : Query(c)
    \/ \E c \in Calls : Region(c)
    \/ \E c \in Calls : Chunk(c)
    \/ \E c \in Calls : Advance(c)
    \/ \E c \in Calls : Close(c)

Spec == Init /\ [][Next]_vars

(***************************************************************************)
(* The chunked reader on its own: one scannable region of every size up to *)
(* MaxSize, under every chunk size and scan-ahead up to MaxChunk, MaxAhead.*)
(***************************************************************************)
MaxChunk == 4
MaxAhead == 2
MaxSize == 8
MaxCap == 6

ReaderInit ==
    /\ USIZE_MAX = 2 ^ UsizeBits - 1
    /\ CHUNK_SIZE \in 1..MaxChunk
    /\ SCAN_AHEAD \in 0..MaxAhead
    /\ MAX_REGION_BYTES = MaxCap
    /\ patterns = << <<"L">>, <<"R">> >>
    /\ \E sz \in 0..MaxSize :
          regions = Layout(<<Region3("MEM_COMMIT", "PAGE_READWRITE", sz)>>)
    /\ tokens \in {{}, {Token(2, <<"a">>)}}
    /\ unreadable \in {{}, {1}}
    /\ StartCalls({1})
    /\ NoCleanup
    /\ NoAppender

ReaderSpec == ReaderInit /\ [][Next]_vars

(***************************************************************************)
(* The end-to-end scenario: one read-write page holding noise and one      *)
(* anchored token, at every place of the page, read in chunks of E2EChunk  *)
(* bytes with an overlap of E2EOverlap.                                    *)
(***************************************************************************)
PageBytes == 4096
E2EChunk == 64
E2EOverlap == 32

E2EInit ==
    /\ USIZE_MAX = 2 * PageBytes - 1
    /\ CHUNK_SIZE = E2EChunk
    /\ SCAN_AHEAD = E2EOverlap - 1
    /\ MAX_REGION_BYTES = PageBytes
    /\ patterns = << <<"L">>, <<"R">> >>
    /\ regions = Layout(<<Region3("MEM_COMMIT", "PAGE_READWRITE", PageBytes)>>)
    /\ \E n \in {E2EOverlap - 1, E2EOverlap} : \E p \in 0..(PageBytes - (n + 2)) :
          tokens = {Token(p, [i \in 1..n |-> "a"])}
    /\ unreadable = {}
    /\ StartCalls({1})
    /\ NoCleanup
    /\ NoAppender

E2ESpec == E2EInit /\ [][Next]_vars

\* The call runs to its end once started: nothing but the call itself can hold it up.
FairSpec == Spec /\ WF_vars(Next)

Returned(c) == pc[c] = "Return"

(***************************************************************************)
(* C1.  Every handle the call acquired is released on every exit path:     *)
(* when the call has returned, no handle it opened is still open.          *)
(***************************************************************************)
C1_HandlesReleasedOnReturn ==
    \A c \in Calls : Returned(c) => ~(\E p \in handles : p[2] = c)

(***************************************************************************)
(* C2.  The process handle is opened exactly once per call and closed      *)
(* exactly once whatever the outcome: no second open of the target, no     *)
(* double close, and no region query or read after the close.              *)
(***************************************************************************)
C2_OpenedOnceClosedOnce ==
    \A c \in Calls :
        /\ opens[c] <= 1
        /\ closes[c] <= 1
        /\ ~stray[c]
        /\ (Returned(c) /\ opens[c] >= 1) => closes[c] = 1
        /\ pc[c] \in {"Query", "Region", "Chunk", "Advance"} => closes[c] = 0

(***************************************************************************)
(* C3.  Err is returned only from the opening phase: a call that returned  *)
(* Err has issued no region query and no read, and a call that has issued  *)
(* one returns Ok, whatever reads failed and whatever the queries reported.*)
(***************************************************************************)
C3_ErrOnlyFromOpening ==
    \A c \in Calls :
        /\ result[c].kind = "Err" =>
              /\ Returned(c)
              /\ queries[c] = {}
              /\ ~last_read[c].issued
        /\ (Returned(c) /\ queries[c] # {}) => result[c].kind = "Ok"

\* a call that met a failed read, went on to a later region and returned Ok(None)
C3_Witness ==
    \E c \in Calls :
        /\ Returned(c)
        /\ result[c] = OkNone
        /\ failed[c] # {}
        /\ Cardinality(visited[c]) >= 2

(***************************************************************************)
(* C4.  A failed read does not abort the scan.  The chunks of a region are *)
(* the offsets 0, then o + max(1, c - overlap) with c = min(CHUNK_SIZE,    *)
(* capped - o), whether the read at o failed or not; so a call that        *)
(* returns Ok(None) has left no such chunk, of any region it examined,     *)
(* that is readable and holds an anchored token.                           *)
(***************************************************************************)
RECURSIVE ChunkOffsets(_, _)
ChunkOffsets(o, cap) ==
    IF o >= cap THEN {}
    ELSE {o} \cup ChunkOffsets(o + Max(1, Min(CHUNK_SIZE, cap - o) - Overlap), cap)

TokenInChunk(r, o) ==
    LET cap == Min(r.RegionSize, MAX_REGION_BYTES)
        n   == Min(CHUNK_SIZE, cap - o)
    IN  /\ Readable(r.BaseAddress + o, n)
        /\ search_bytes_for_token(Bytes(r.BaseAddress + o, n), patterns).some

C4_ReadFailureDoesNotAbort ==
    \A c \in Calls :
        (Returned(c) /\ result[c] = OkNone) =>
            \A r \in visited[c] :
                (r.State = "MEM_COMMIT" /\ r.Protect \in ScannableProtections) =>
                    \A o \in ChunkOffsets(0, Min(r.RegionSize, MAX_REGION_BYTES)) :
                        ~TokenInChunk(r, o)

\* a token returned from a region in which an earlier read had failed
C4_Witness ==
    \E c \in Calls :
        /\ Returned(c)
        /\ result[c].some
        /\ \E o \in failed[c] : info[c].BaseAddress + o < last_read[c].addr

(***************************************************************************)
(* C7.  Region size is clamped: every read lies inside                     *)
(* [base, base + min(reported size, MAX_REGION_BYTES)) of the region it is *)
(* issued for and has a length between 1 and CHUNK_SIZE.                   *)
(***************************************************************************)
C7_ReadsWithinCap ==
    \A c \in Calls :
        last_read[c].issued =>
            LET r == last_read[c].region
            IN  /\ r.BaseAddress <= last_read[c].addr
                /\ last_read[c].addr + last_read[c].len
                       <= r.BaseAddress + Min(r.RegionSize, MAX_REGION_BYTES)
                /\ 1 <= last_read[c].len
                /\ last_read[c].len <= CHUNK_SIZE

\* a region larger than the cap, read up to the cap
C7_Witness ==
    \E c \in Calls :
        /\ last_read[c].issued
        /\ last_read[c].region.RegionSize > MAX_REGION_BYTES
        /\ last_read[c].addr + last_read[c].len
               = last_read[c].region.BaseAddress + MAX_REGION_BYTES
        /\ pc[c] = "Advance"

(***************************************************************************)
(* C8.  A read is issued only against a committed region of size > 0 whose *)
(* protection is exactly read-write, write-copy, execute-read-write or     *)
(* execute-write-copy; no other region is ever read.                       *)
(***************************************************************************)
C8_ReadsOnlyScannable ==
    \A c \in Calls :
        last_read[c].issued =>
            /\ last_read[c].region.State = "MEM_COMMIT"
            /\ last_read[c].region.RegionSize > 0
            /\ last_read[c].region.Protect \in
                   {"PAGE_READWRITE", "PAGE_WRITECOPY",
                    "PAGE_EXECUTE_READWRITE", "PAGE_EXECUTE_WRITECOPY"}
            /\ last_read[c].region \in visited[c]

\* the walk has passed a guard-protected region and read a later one
C8_Witness ==
    \E c \in Calls :
        /\ last_read[c].issued
        /\ \E r \in visited[c] :
              /\ r.Protect = "PAGE_READWRITE|PAGE_GUARD"
              /\ r.BaseAddress < last_read[c].region.BaseAddress

RangesCovered(c) ==
    \A a \in 0..(capped[c] - 1) : \A n \in 1..Overlap :
        a + n <= capped[c] =>
            \E b \in buffers[c] : b[1] <= a /\ a + n <= b[1] + b[2]

RegionReadThrough(c) ==
    pc[c] = "Advance" /\ Scannable(info[c]) /\ failed[c] = {}

\* as claimed: for every chunk size and overlap
C5_RangesCovered ==
    \A c \in Calls : RegionReadThrough(c) => RangesCovered(c)

\* as amended: when the overlap is no wider than a chunk, or the capped
\* region fits into one chunk
C5_RangesCoveredWhenOverlapFits ==
    \A c \in Calls :
        (RegionReadThrough(c) /\ (Overlap <= CHUNK_SIZE \/ capped[c] <= CHUNK_SIZE))
            => RangesCovered(c)

\* what is left of the claim otherwise: some range is in no buffer
C5_OtherwiseNotCovered ==
    \A c \in Calls :
        (RegionReadThrough(c) /\ Overlap > CHUNK_SIZE /\ capped[c] > CHUNK_SIZE)
            => ~RangesCovered(c)

\* a region read through in several overlapping chunks
C5_Witness ==
    \E c \in Calls :
        /\ RegionReadThrough(c)
        /\ Overlap >= 2
        /\ Overlap < CHUNK_SIZE
        /\ capped[c] > CHUNK_SIZE
        /\ Cardinality(buffers[c]) >= 3

(***************************************************************************)
(* C6.  End to end: the scan of the page returns exactly the token that    *)
(* lies in it, wherever in the page the anchored token is placed.          *)
(***************************************************************************)
\* as claimed: for every anchored token
C6_TokenFoundEverywhere ==
    \A c \in Calls :
        (Returned(c) /\ result[c].kind = "Ok") =>
            \A t \in tokens : result[c] = OkSome(t.body)

\* as amended: for every anchored token (anchors and body) of at most
\* overlap + 1 bytes
C6_ShortTokenFoundEverywhere ==
    \A c \in Calls :
        (Returned(c) /\ result[c].kind = "Ok") =>
            \A t \in tokens :
                AnchoredLen(t) <= Overlap + 1 => result[c] = OkSome(t.body)

\* a token of overlap + 1 bytes found although it starts on the last byte
\* before a chunk start
C6_Witness ==
    \E c \in Calls : \E t \in tokens :
        /\ result[c] = OkSome(t.body)
        /\ AnchoredLen(t) = Overlap + 1
        /\ t.addr > CHUNK_SIZE
        /\ t.addr % (CHUNK_SIZE - Overlap) = CHUNK_SIZE - Overlap - 1

(***************************************************************************)
(* C9.  The region walk terminates whatever the region queries report:     *)
(* every call of scan_process_for_token eventually returns.                *)
(***************************************************************************)
C9_WalkTerminates == <>(\A c \in Calls : Returned(c))

(***************************************************************************)
(* C11.  The traversal is single-pass in strictly increasing address       *)
(* order: every address handed to a region query is above all addresses    *)
(* queried before it, every chunk offset is above the earlier offsets of   *)
(* its region, and a region under examination starts at or above the end   *)
(* of every region examined before it.                                     *)
(***************************************************************************)
C11_SinglePass ==
    \A c \in Calls :
        /\ pc[c] = "Query" => \A q \in queries[c] : q < address[c]
        /\ pc[c] = "Chunk" =>
              \A o \in {b[1] : b \in buffers[c]} \cup failed[c] : o < offset[c]
        /\ pc[c] = "Region" =>
              \A v \in visited[c] \ {info[c]} : RegionEnd(v) <= info[c].BaseAddress

(***************************************************************************)
(* Two calls of scan_process_for_token against the same target, their      *)
(* steps interleaved in every way.                                         *)
(***************************************************************************)
ConcInit ==
    /\ USIZE_MAX = 2 ^ UsizeBits - 1
    /\ \E cfg \in Configs :
          /\ CHUNK_SIZE = cfg.chunk
          /\ SCAN_AHEAD = cfg.ahead
          /\ MAX_REGION_BYTES = cfg.max
    /\ patterns = << <<"L">>, <<"R">> >>
    /\ regions \in {Layout(<<Region3("MEM_COMMIT", "PAGE_READWRITE", 3),
                             Region3("MEM_COMMIT", "PAGE_READWRITE", 8)>>),
                    Layout(<<Region3("MEM_COMMIT", "PAGE_READONLY", 3),
                             Region3("MEM_COMMIT", "PAGE_WRITECOPY", 8)>>)}
    /\ tokens \in {{}, {Token(5, <<"a">>)}}
    /\ unreadable \in {{}, {1}}
    /\ StartCalls({1, 2})
    /\ NoCleanup
    /\ NoAppender

ConcSpec == ConcInit /\ [][Next]_vars

\* the call is between its second open and its return
Walking(c) == pc[c] \in {"Query", "Region", "Chunk", "Advance", "Close"}

\* two calls at the same place of the walk
SamePlace(c, d) ==
    /\ pc[c] = pc[d]
    /\ address[c] = address[d]
    /\ queries[c] = queries[d]
    /\ pc[c] = "Chunk" => offset[c] = offset[d]

(***************************************************************************)
(* C12.  Concurrent calls share no mutable state: a call closes only       *)
(* handles it opened itself, so the handles of a call that is under way    *)
(* stay open whatever the other call does; and what a call has queried,    *)
(* read and found at a place of the walk is the same for both calls, in    *)
(* every interleaving, as is the result it returns.                        *)
(***************************************************************************)
C12_CallsIndependent ==
    \A c \in Calls :
        /\ ~stray[c]
        /\ pc[c] = "OpenRead" => Holds(c, handle[c])
        /\ Walking(c) => Holds(c, handle[c]) /\ Holds(c, rpm_handle[c])
        /\ \A p \in handles : p[2] = c => p[1] \in {handle[c], rpm_handle[c]}
        /\ \A d \in Calls :
              (Walking(c) /\ SamePlace(c, d)) =>
                  /\ info[c] = info[d]
                  /\ capped[c] = capped[d]
                  /\ offset[c] = offset[d]
                  /\ visited[c] = visited[d]
                  /\ buffers[c] = buffers[d]
                  /\ failed[c] = failed[d]
                  /\ searched[c] = searched[d]
                  /\ last_read[c] = last_read[d]
        /\ \A d \in Calls :
              (Returned(c) /\ Returned(d) /\ queries[c] # {} /\ queries[d] # {}) =>
                  /\ result[c] = result[d]
                  /\ queries[c] = queries[d]
                  /\ visited[c] = visited[d]
                  /\ searched[c] = searched[d]
                  /\ last_read[c] = last_read[d]

\* one call has returned a token while the other is still reading
C12_Witness ==
    \E c, d \in Calls :
        /\ c # d
        /\ result[c].some
        /\ pc[d] = "Chunk"
        /\ buffers[d] # {}
        /\ Holds(d, handle[d])

\* The chunked reader running to its end once started.
FairReaderSpec == ReaderSpec /\ WF_vars(Next)

\* a step of call c that issued a read and stayed in the chunk loop
ChunkIteration(c) ==
    /\ pc[c] = "Chunk"
    /\ pc'[c] = "Chunk"
    /\ last_read'[c] # last_read[c]

(***************************************************************************)
(* C15.  The chunk step is the same after a searched buffer and after a    *)
(* failed read: from offset o with intended length                         *)
(* c = min(CHUNK_SIZE, capped - o) the next offset is                      *)
(* o + max(1, c - overlap), saturating; it is above o on every iteration,  *)
(* and the chunk loop of a region comes to its end, also when the overlap  *)
(* is as wide as the chunk or wider.                                       *)
(***************************************************************************)
C15_ChunkStepAdvances ==
    /\ [][\A c \in Calls :
             ChunkIteration(c) =>
                 /\ offset'[c] = saturating_add(offset[c],
                        Max(1, saturating_sub(Min(CHUNK_SIZE, capped[c] - offset[c]),
                                              Overlap)))
                 /\ offset'[c] > offset[c]]_vars
    /\ []<>(\A c \in Calls : pc[c] # "Chunk")

\* a region longer than a chunk read to its end with an overlap no narrower
\* than the chunk, past a failed read and past a searched buffer
C15_Witness ==
    \E c \in Calls :
        /\ pc[c] = "Advance"
        /\ Overlap >= CHUNK_SIZE
        /\ CHUNK_SIZE >= 2
        /\ capped[c] > CHUNK_SIZE
        /\ failed[c] # {}
        /\ buffers[c] # {}

\* the region walk of call c has come to its end: the last query failed, or
\* the next address came out as zero
WalkEnded(c) ==
    \/ address[c] \in queries[c] /\ ~VirtualQueryEx(address[c]).ok
    \/ address[c] = 0 /\ visited[c] # {}

Matches(b) == search_bytes_for_token(Bytes(b[1], b[2]), patterns).some

(***************************************************************************)
(* C16.  Not-found is returned only on exhaustion with no match: a call    *)
(* that returned Ok(None) has walked the regions to the end and none of    *)
(* the buffers it searched matched; and a searched buffer that matches is  *)
(* the last buffer the call read, no buffer searched before it matches or  *)
(* lies above it, and the call has returned the matcher's token for it.    *)
(***************************************************************************)
C16_NotFoundOnlyOnExhaustion ==
    \A c \in Calls :
        /\ (Returned(c) /\ result[c] = OkNone) =>
              /\ WalkEnded(c)
              /\ \A b \in searched[c] : ~Matches(b)
        /\ \A b \in searched[c] :
              Matches(b) =>
                  /\ b = <<last_read[c].addr, last_read[c].len>>
                  /\ \A a \in searched[c] \ {b} : ~Matches(a) /\ a[1] < b[1]
                  /\ Returned(c)
                  /\ result[c] = OkSome(search_bytes_for_token(Bytes(b[1], b[2]), patterns).token)

\* Ok(None) after two regions were searched, with a token in the target that
\* no searched buffer held whole
C16_Witness ==
    \E c \in Calls :
        /\ Returned(c)
        /\ result[c] = OkNone
        /\ tokens # {}
        /\ Cardinality({r \in visited[c] : Scannable(r)}) >= 2
        /\ Cardinality(searched[c]) >= 3

(***************************************************************************)
(* C17.  The matcher is invoked only on buffers filled by a successful     *)
(* read: every buffer searched lies in readable memory, the place of a     *)
(* failed read of the region under examination was never searched, and a   *)
(* returned token comes from a read that succeeded.                        *)
(***************************************************************************)
C17_SearchOnlyAfterRead ==
    \A c \in Calls :
        /\ \A b \in searched[c] : Readable(b[1], b[2])
        /\ \A o \in failed[c] : \A b \in buffers[c] : b[1] # o
        /\ result[c].some =>
              /\ Readable(last_read[c].addr, last_read[c].len)
              /\ <<last_read[c].addr, last_read[c].len>> \in searched[c]

\* a token returned from a region in which a read had failed, the failed
\* read's range overlapping the anchored token
C17_Witness ==
    \E c \in Calls : \E o \in failed[c] : \E t \in tokens :
        /\ Returned(c)
        /\ result[c] = OkSome(t.body)
        /\ info[c].BaseAddress + o < t.addr + AnchoredLen(t)
        /\ t.addr < info[c].BaseAddress + o + CHUNK_SIZE

(***************************************************************************)
(* The logout clean-up on its own: every installation, a main and a backup *)
(* database with every combination of the rows and markers below, and      *)
(* every failure of an open, a DELETE, the marker read and the marker      *)
(* write.  No scan and no logging take part.                               *)
(***************************************************************************)
NoScan ==
    /\ USIZE_MAX = 2 ^ UsizeBits - 1
    /\ CHUNK_SIZE = 1
    /\ SCAN_AHEAD = 0
    /\ MAX_REGION_BYTES = 1
    /\ patterns = << <<"L">>, <<"R">> >>
    /\ regions = << >>
    /\ tokens = {}
    /\ unreadable = {}
    /\ StartCalls({})

Entry(k) == <<k, 1>>

\* marker texts: none of the keys, unsorted, a repeated key, no object
Markers ==
    {Object(<< >>),
     Object(<<Entry(FingerprintKey), Entry(SettingsKey)>>),
     Object(<<Entry(SettingsKey), Entry("oauthToken"), Entry(FingerprintKey),
              Entry("authStatus")>>),
     Object(<<Entry("authStatus"), Entry(FingerprintKey), <<"authStatus", 2>>>>),
     Raw(1)}

RowSets ==
    {{}, {"oauthToken"}, {"authStatus", FingerprintKey},
     {FingerprintKey, SettingsKey},
     {"authStatus", "oauthToken", FingerprintKey, SettingsKey}}

Plain(keys) == [k \in keys |-> Raw(2)]

Tables ==
    {Plain(ks) : ks \in RowSets}
    \cup {InsertOrReplace(Plain(ks), TARGET_STORAGE_MARKER, m) :
              ks \in RowSets, m \in Markers}

BackupTables ==
    {Plain({"authStatus", FingerprintKey}),
     InsertOrReplace(Plain({"oauthToken", FingerprintKey}), TARGET_STORAGE_MARKER,
         Object(<<Entry("oauthToken"), Entry(FingerprintKey)>>))}

CleanupInit ==
    /\ install \in {"primary", "fallback", "none"}
    /\ \E m \in {NoDatabase} \cup {[exists |-> TRUE, rows |-> r] : r \in Tables} :
       \E b \in {NoDatabase} \cup {[exists |-> TRUE, rows |-> r] : r \in BackupTables} :
          db = [n \in DbNames |-> IF n = "main" THEN m ELSE b]
    /\ StartCleanup("Locate")
    /\ NoScan
    /\ NoAppender

CleanupNext ==
    \/ LocateDatabase
    \/ OpenDatabase
    \/ DeleteKey
    \/ UpdateMarker
    \/ DatabaseCleared
    \/ Finish

CleanupSpec == CleanupInit /\ [][CleanupNext]_vars

\* the entries of DELETE_KEYS whose row database n had and has no longer
RowsGone(n) ==
    {i \in DOMAIN DELETE_KEYS :
        /\ DELETE_KEYS[i] \in DOMAIN db0[n].rows
        /\ DELETE_KEYS[i] \notin DOMAIN db[n].rows}

(***************************************************************************)
(* C13.  Clearing a state database removes only login data: the only rows  *)
(* that go are rows whose key is in DELETE_KEYS, the only row rewritten is *)
(* the marker row, no row is added, every other row, the device            *)
(* fingerprint among them, is as it was; and the count clear_database      *)
(* returns is the number of DELETE_KEYS entries whose row was deleted.     *)
(***************************************************************************)
C13_OnlyLoginDataRemoved ==
    /\ \A n \in DbNames :
          /\ DOMAIN db[n].rows \subseteq DOMAIN db0[n].rows
          /\ \A k \in DOMAIN db0[n].rows :
                /\ k \notin DOMAIN db[n].rows => k \in Range(DELETE_KEYS)
                /\ (k \in DOMAIN db[n].rows /\ k # TARGET_STORAGE_MARKER) =>
                      db[n].rows[k] = db0[n].rows[k]
          /\ FingerprintKey \in DOMAIN db0[n].rows =>
                /\ FingerprintKey \in DOMAIN db[n].rows
                /\ db[n].rows[FingerprintKey] = db0[n].rows[FingerprintKey]
    /\ cpc \in {"Marker", "Cleared"} => count = Cardinality(RowsGone(cur))
    /\ \A i \in DOMAIN msg : msg[i][2] = Cardinality(RowsGone(msg[i][1]))

\* a logout that cleared a main database holding both login rows, the
\* fingerprint and the settings, with one DELETE failing and the marker rewritten
C13_Witness ==
    /\ cpc = "Return"
    /\ outcome = "Ok"
    /\ DOMAIN db0["main"].rows =
           {"authStatus", "oauthToken", FingerprintKey, SettingsKey, TARGET_STORAGE_MARKER}
    /\ msg[1] = <<"main", 1>>
    /\ db["main"].rows[TARGET_STORAGE_MARKER] # db0["main"].rows[TARGET_STORAGE_MARKER]
    /\ db["main"].rows[FingerprintKey] = db0["main"].rows[FingerprintKey]

\* the marker object stored in rows, as remove_keys_from_marker reads it
MarkerOf(rows) == unwrap_or_default(from_str(rows[TARGET_STORAGE_MARKER]))

(***************************************************************************)
(* C14.  remove_keys_from_marker removes the given keys from the marker    *)
(* object entirely: after a successful call on an existing marker the      *)
(* stored marker has none of the keys and every other entry of it is as it *)
(* was; the marker row is written only if one of the keys was present;     *)
(* without a marker row, and on failure, nothing is written; no other row  *)
(* is touched.                                                             *)
(***************************************************************************)
C14_MarkerKeysRemoved ==
    marker_call.called =>
        LET before == marker_call.before
            after  == marker_call.after
            keys   == Range(DELETE_KEYS)
        IN  /\ DOMAIN after = DOMAIN before
            /\ \A k \in DOMAIN before \ {TARGET_STORAGE_MARKER} : after[k] = before[k]
            /\ ~marker_call.wrote => after = before
            /\ TARGET_STORAGE_MARKER \notin DOMAIN before => ~marker_call.wrote
            /\ marker_call.wrote =>
                  /\ marker_call.ok
                  /\ keys \cap DOMAIN MarkerOf(before) # {}
            /\ (marker_call.ok /\ TARGET_STORAGE_MARKER \in DOMAIN before) =>
                  /\ keys \cap DOMAIN MarkerOf(after) = {}
                  /\ \A k \in DOMAIN MarkerOf(before) \ keys :
                        /\ k \in DOMAIN MarkerOf(after)
                        /\ MarkerOf(after)[k] = MarkerOf(before)[k]
                  /\ DOMAIN MarkerOf(after) \subseteq DOMAIN MarkerOf(before)

\* a marker listing both login keys among others, not in key order, rewritten
\* without them
C14_Witness ==
    /\ marker_call.called
    /\ marker_call.wrote
    /\ marker_call.before[TARGET_STORAGE_MARKER] =
           Object(<<Entry(SettingsKey), Entry("oauthToken"), Entry(FingerprintKey),
                    Entry("authStatus")>>)
    /\ marker_call.after[TARGET_STORAGE_MARKER] =
           Object(<<Entry(FingerprintKey), Entry(SettingsKey)>>)

(***************************************************************************)
(* C18.  clear_all_antigravity_data treats the two databases               *)
(* asymmetrically.  It returns Err exactly when no database path is found, *)
(* the main database file does not exist or clear_database fails on the    *)
(* main database, and then the backup is neither opened nor changed.  Once *)
(* the main database is cleared the result is Ok, whether the backup is    *)
(* missing, fails to open or is cleared; and the backup is opened only     *)
(* after the main database was cleared.                                    *)
(***************************************************************************)
C18_MainThenBackup ==
    /\ outcome = "Err" =>
          /\ cpc = "Return"
          /\ cleared = << >>
          /\ "backup" \notin Range(opened)
          /\ db["backup"] = db0["backup"]
          /\ \/ install = "none"
             \/ ~db0["main"].exists
             \/ opened = <<"main">>
    /\ (cpc = "Return" /\ cleared # << >>) => outcome = "Ok"
    /\ (cpc = "Return" /\ outcome = "Ok") => cleared # << >>
    /\ cleared # << >> => cleared[1] = "main"
    /\ opened # << >> => opened[1] = "main"
    /\ "backup" \in Range(opened) =>
          /\ opened = <<"main", "backup">>
          /\ cleared # << >>
          /\ db0["backup"].exists
    /\ Len(cleared) <= 2
    /\ Len(cleared) = 2 => cleared[2] = "backup"

\* a logout that succeeded although the backup database could not be opened
C18_Witness ==
    /\ cpc = "Return"
    /\ outcome = "Ok"
    /\ opened = <<"main", "backup">>
    /\ cleared = <<"main">>
    /\ db["backup"] = db0["backup"]
    /\ db["main"] # db0["main"]

(***************************************************************************)
(* The appender on its own: two threads writing and flushing through one   *)
(* DailyLogFileAppender while the date moves on, every open of a new day's *)
(* file failing or not.  No scan and no clean-up take part.                *)
(***************************************************************************)
AppenderInit ==
    /\ NewAppender(1, Threads)
    /\ NoScan
    /\ NoCleanup

AppenderNext ==
    \/ \E t \in Threads : Enter(t)
    \/ \E t \in Threads : ReadClock(t)
    \/ \E t \in Threads : LockDate(t)
    \/ \E t \in Threads : RotateWriter(t)
    \/ \E t \in Threads : LockWriter(t)
    \/ \E t \in Threads : WriteOrFlush(t)
    \/ Tick

AppenderSpec == AppenderInit /\ [][AppenderNext]_vars

\* thread t waits for a lock that another thread holds
Blocked(t) ==
    \/ tpc[t] = "LockDate" /\ date_lock # NoThread
    \/ tpc[t] \in {"RotateWriter", "LockWriter", "FlushLock"} /\ writer_lock # NoThread

(***************************************************************************)
(* C19.  The appender keeps its recorded date and its open file in step.   *)
(* Whenever no rotation is under way the writer's file is the file of      *)
(* current_date; current_date changes only in a rotation that goes on to   *)
(* replace the writer by the file of that date; a failed open leaves both  *)
(* as they were and the write continues on the writer as it is.  The       *)
(* current_date lock is taken before the writer lock, never after it, and  *)
(* some thread inside write or flush can always take a step.               *)
(***************************************************************************)
C19_DateAndFileInStep ==
    /\ [](/\ date_lock = NoThread => current_date = writer
          /\ \A t \in Threads :
                /\ date_lock = t <=> tpc[t] = "RotateWriter"
                /\ writer_lock = t <=> tpc[t] \in {"Write", "Flush"}
                /\ (tpc[t] = "idle" /\ rotated[t] = "failed") => wrote_to[t] # NoFile
          /\ (\E t \in Threads : tpc[t] # "idle") =>
                \E t \in Threads : tpc[t] # "idle" /\ ~Blocked(t))
    /\ [][/\ current_date' # current_date =>
               \E t \in Threads :
                   /\ date_lock = NoThread
                   /\ date_lock' = t
                   /\ current_date' = today[t]
          /\ writer' # writer =>
               /\ writer' = current_date
               /\ date_lock # NoThread
               /\ date_lock' = NoThread
          /\ \A t \in Threads :
               (rotated'[t] = "failed" /\ rotated[t] # "failed") =>
                   /\ UNCHANGED <<current_date, writer>>
                   /\ tpc'[t] = "LockWriter"]_vars

\* a write that went to the previous day's file because opening the new day's
\* file failed, while the other thread was inside write as well
C19_Witness ==
    \E t, u \in Threads :
        /\ t # u
        /\ tpc[t] = "idle"
        /\ rotated[t] = "failed"
        /\ wrote_to[t] # NoFile
        /\ wrote_to[t] < today[t]
        /\ rotated[u] = "ok"
        /\ current_date = writer

====
